---- MODULE Spec2Model ----
(***************************************************************************)
(* MAL-sampler: the generation-and-repair engine of src/model.py,          *)
(* src/asset.py and src/probability_distribution.py (the same code is      *)
(* bundled in src/src/mal_sampler.py, where sample() runs the growth phase *)
(* and then the repair phase).                                             *)
(*                                                                         *)
(* An asset is an object identity 1..MaxAssets, allocated in creation      *)
(* order and never reused; its fields are the functions asset_type_name,   *)
(* name, n_associated_assets, associated_assets and generation_completed.  *)
(* A python dict is a function whose DOMAIN is the dict's key set.         *)
(* random.choice and set iteration order are nondeterministic choices.     *)
(***************************************************************************)
EXTENDS Integers, Sequences, FiniteSets, TLC

\* ------------------------------------------------------------------ bounds
\* Size of the pool of asset identities (python allocates without limit).
MaxAssets == 5
\* Number of samples a ProbabilityDistribution draws for value/low/high.
N_SAMPLES_FOR_BOUNDS == 2
\* Largest attempt limit (n_consistency_resolution_attempts) explored.
MaxAttempts == 2

\* sys.maxsize, the population cap of a type without 'n'. TLC integers are
\* 32 bits wide; the value only takes part in comparisons with populations.
SysMaxsize == 2147483647

Ids == 1..MaxAssets

\* ------------------------------------------------- probability distribution
\* Distribution dictionaries. 'p' is a probability strictly between 0 and 1,
\* so that a Binomial(n, p) draw can be any integer of 0..n.
Constant(n) == [distribution |-> "Constant", n |-> n]
Binomial(n) == [distribution |-> "Binomial", n |-> n]
BinomialPlusOne(n) == [distribution |-> "BinomialPlusOne", n |-> n]

\* Mutant of sample: a Constant distribution can also return n - 1.
sample_constant_or_less(d) ==
  IF d.distribution = "Binomial" THEN 0..d.n
  ELSE IF d.distribution = "Constant" THEN {d.n - 1, d.n}
  ELSE {v + 1 : v \in 0..d.n}

\* The values ProbabilityDistribution.sample() can return.
sample(d) ==
  IF d.distribution = "Binomial" THEN 0..d.n
  ELSE IF d.distribution = "Constant" THEN {d.n}
  ELSE {v + 1 : v \in 0..d.n}

SeqMin(s) == CHOOSE m \in {s[i] : i \in DOMAIN s} : \A i \in DOMAIN s : m <= s[i]
SeqMax(s) == CHOOSE m \in {s[i] : i \in DOMAIN s} : \A i \in DOMAIN s : m >= s[i]

\* Mutant of FromSamples: the bounds come from the samples after the first.
FromSamples_later_bounds(samples) ==
  LET later == IF Len(samples) = 1 THEN samples ELSE Tail(samples)
  IN [value |-> samples[1], low |-> SeqMin(later), high |-> SeqMax(later)]

\* value = samples[0], low = sorted(samples)[0], high = sorted(samples)[-1]
FromSamples(samples) ==
  [value |-> samples[1], low |-> SeqMin(samples), high |-> SeqMax(samples)]

\* The objects ProbabilityDistribution(d, n_samples_for_bounds) can construct.
ProbabilityDistribution(d, n_samples_for_bounds) ==
  {FromSamples(samples) : samples \in [1..n_samples_for_bounds -> sample(d)]}

\* ---------------------------------------------------------------- metamodels
\* A metamodel: 'types' is the dict's key order, 'n' the types that declare a
\* population distribution, 'associated_assets' the per-type dict of neighbor
\* distributions with 'order' its key order.
MM_Scenario ==
  [id |-> "scenario", types |-> <<"A", "B">>,
   n |-> [t \in {"A"} |-> Constant(3)],
   order |-> [A |-> <<"B">>, B |-> <<"A">>],
   associated_assets |-> [A |-> [t \in {"B"} |-> Constant(2)],
                          B |-> [t \in {"A"} |-> Constant(1)]]]

MM_Caps ==
  [id |-> "caps", types |-> <<"A", "B">>,
   n |-> [t \in {"A", "B"} |-> Constant(1)],
   order |-> [A |-> <<"B">>, B |-> <<"A">>],
   associated_assets |-> [A |-> [t \in {"B"} |-> Constant(2)],
                          B |-> [t \in {"A"} |-> Constant(2)]]]

MM_Chain ==
  [id |-> "chain", types |-> <<"A", "B">>,
   n |-> [t \in {"B"} |-> Constant(1)],
   order |-> [A |-> <<"B">>, B |-> <<"A">>],
   associated_assets |-> [A |-> [t \in {"B"} |-> Constant(2)],
                          B |-> [t \in {"A"} |-> Constant(1)]]]

MM_Self ==
  [id |-> "self", types |-> <<"A">>,
   n |-> [t \in {"A"} |-> BinomialPlusOne(2)],
   order |-> [A |-> <<"A">>],
   associated_assets |-> [A |-> [t \in {"A"} |-> Binomial(2)]]]

MM_Mutual ==
  [id |-> "mutual", types |-> <<"A", "B">>,
   n |-> [t \in {"A", "B"} |-> Constant(2)],
   order |-> [A |-> <<"B">>, B |-> <<"A">>],
   associated_assets |-> [A |-> [t \in {"B"} |-> Constant(2)],
                          B |-> [t \in {"A"} |-> BinomialPlusOne(1)]]]

MM_OneSided ==
  [id |-> "onesided", types |-> <<"A", "B">>,
   n |-> [A |-> Constant(2), B |-> Binomial(1)],
   order |-> [A |-> <<"B", "A">>, B |-> <<>>],
   associated_assets |-> [A |-> [B |-> BinomialPlusOne(1), A |-> Constant(1)],
                          B |-> [t \in {} |-> Constant(0)]]]

MM_Cyclic ==
  [id |-> "cyclic", types |-> <<"A", "B", "C">>,
   n |-> [t \in {} |-> Constant(0)],
   order |-> [A |-> <<"B">>, B |-> <<"C">>, C |-> <<"A">>],
   associated_assets |-> [A |-> [t \in {"B"} |-> Constant(1)],
                          B |-> [t \in {"C"} |-> Constant(1)],
                          C |-> [t \in {"A"} |-> Constant(1)]]]

\* A needs a C that can never exist (population Constant(0)), so that every A
\* is repaired in force mode; A and B need 1 or 2 of each other.
MM_Forced ==
  [id |-> "forced", types |-> <<"A", "B", "C">>,
   n |-> [A |-> Constant(2), B |-> Constant(2), C |-> Constant(0)],
   order |-> [A |-> <<"B", "C">>, B |-> <<"A">>, C |-> <<>>],
   associated_assets |-> [A |-> [B |-> BinomialPlusOne(1), C |-> Constant(1)],
                          B |-> [t \in {"A"} |-> BinomialPlusOne(1)],
                          C |-> [t \in {} |-> Constant(0)]]]

\* No type has a population cap; a B created for an A may sample the target 0
\* for A.
MM_Zero ==
  [id |-> "zero", types |-> <<"A", "B">>,
   n |-> [t \in {} |-> Constant(0)],
   order |-> [A |-> <<"B">>, B |-> <<"A">>],
   associated_assets |-> [A |-> [t \in {"B"} |-> Constant(1)],
                          B |-> [t \in {"A"} |-> Binomial(1)]]]

\* As MM_Mutual, with room for a third B: a B with a free place for an A can
\* exist while the cap of B is not reached.
MM_Reuse ==
  [id |-> "reuse", types |-> <<"A", "B">>,
   n |-> [A |-> Constant(2), B |-> Constant(3)],
   order |-> [A |-> <<"B">>, B |-> <<"A">>],
   associated_assets |-> [A |-> [t \in {"B"} |-> Constant(2)],
                          B |-> [t \in {"A"} |-> BinomialPlusOne(1)]]]

\* A type whose associated_assets names "X", which is no key of the metamodel.
MM_Unknown ==
  [id |-> "unknown", types |-> <<"A">>,
   n |-> [t \in {} |-> Constant(0)],
   order |-> [A |-> <<"X">>],
   associated_assets |-> [A |-> [t \in {"X"} |-> Binomial(1)]]]

Metamodels ==
  {MM_Scenario, MM_Caps, MM_Chain, MM_Self, MM_Mutual, MM_OneSided, MM_Cyclic,
   MM_Unknown, MM_Forced, MM_Zero,
   MM_Reuse}

Range(s) == {s[i] : i \in DOMAIN s}

\* The dicts with key set 'keys' whose value at k is one of choices(k).
DictOf(keys, choices(_)) ==
  {f \in [keys -> UNION {choices(k) : k \in keys}] : \A k \in keys : f[k] \in choices(k)}

VARIABLES
  metamodel,                          \* Model.metamodel
  n_consistency_resolution_attempts,  \* the attempt limit
  n_assets,                           \* Model.n_assets
  assets,                             \* Model.assets
  created,                            \* the Asset objects constructed so far
  asset_type_name,                    \* Asset.asset_type_name
  name,                               \* Asset.name: the number after the abbreviation
  n_associated_assets,                \* Asset.n_associated_assets
  associated_assets,                  \* Asset.associated_assets
  generation_completed,               \* Asset.generation_completed
  pc,                                 \* position in sample() / resolve_inconsistency()
  source_asset,                       \* complete_associations: source_asset
  type_idx,                           \* complete_associations: position in the keys() loop
  force_associate,                    \* complete_associations: force_associate
  ret,                                \* where complete_associations returns to
  inconsistent_assets,                \* resolve_inconsistency: inconsistent_assets
  loop_rest,                          \* the part of inconsistent_assets a for loop has not visited
  loop_last,                          \* the asset the for loop visited last
  counter,                            \* resolve_inconsistency: counter
  failed,                             \* 'Failed to resolve inconsistencies' was printed
  checked,                            \* what the last check_consistency() call read, and
                                      \* whether the call before it had read the same
  err,                                \* the exception that ended the run, or "none"
  call                                \* the Asset method the caller has called, and on what

model_vars == <<metamodel, n_consistency_resolution_attempts, n_assets>>
heap_vars == <<created, asset_type_name, name, n_associated_assets, generation_completed>>
ca_vars == <<source_asset, type_idx, force_associate, ret>>
resolve_vars == <<inconsistent_assets, loop_rest, loop_last, counter, failed, checked>>
vars == <<model_vars, assets, heap_vars, associated_assets, pc, ca_vars, resolve_vars, err, call>>

NoAsset == 0
EmptyDict == <<>>
EmptyList == [a \in {} |-> 0]
NoCall == [op |-> "none", self |-> NoAsset, target |-> NoAsset]

\* ------------------------------------------------------------ Model.__init__
\* Mutant of population: a type without 'n' gets the cap Constant(0).
population_default_zero(mm, t) ==
  IF t \in DOMAIN mm.n THEN mm.n[t] ELSE Constant(0)

\* The distribution dictionary of a type's population: its 'n', or
\* Constant(sys.maxsize) when the metamodel entry has no 'n'.
population(mm, t) ==
  IF t \in DOMAIN mm.n THEN mm.n[t] ELSE Constant(SysMaxsize)

ModelInit(mm) ==
  /\ metamodel = mm
  /\ n_assets \in DictOf(Range(mm.types),
                         LAMBDA t : ProbabilityDistribution(population(mm, t), N_SAMPLES_FOR_BOUNDS))
  /\ assets = [t \in Range(mm.types) |-> {}]

Init ==
  /\ \E mm \in Metamodels : ModelInit(mm)
  /\ n_consistency_resolution_attempts \in 0..MaxAttempts
  /\ created = {}
  /\ asset_type_name = [a \in Ids |-> "unborn"]
  /\ name = [a \in Ids |-> 0]
  /\ n_associated_assets = [a \in Ids |-> EmptyDict]
  /\ associated_assets = [a \in Ids |-> EmptyDict]
  /\ generation_completed = [a \in Ids |-> FALSE]
  /\ pc = "constructed"
  /\ source_asset = NoAsset
  /\ type_idx = 0
  /\ force_associate = FALSE
  /\ ret = "none"
  /\ inconsistent_assets = EmptyList
  /\ loop_rest = EmptyList
  /\ loop_last = NoAsset
  /\ counter = 0
  /\ failed = FALSE
  /\ checked = [read |-> <<>>, repeated |-> FALSE]
  /\ err = "none"
  /\ call = NoCall

\* ----------------------------------------------------------------- src/asset.py
\* Mutant of accepts: a type the asset does not declare is accepted.
accepts_undeclared(a, asset_type, force_accept) ==
  IF asset_type \notin DOMAIN n_associated_assets[a] THEN TRUE
  ELSE IF ~force_accept
       THEN Cardinality(associated_assets[a][asset_type]) < n_associated_assets[a][asset_type].value
       ELSE Cardinality(associated_assets[a][asset_type]) < n_associated_assets[a][asset_type].high

\* Mutant of accepts: the limit itself is still accepted.
accepts_at_limit(a, asset_type, force_accept) ==
  IF asset_type \notin DOMAIN n_associated_assets[a] THEN FALSE
  ELSE IF ~force_accept
       THEN Cardinality(associated_assets[a][asset_type]) < n_associated_assets[a][asset_type].value
       ELSE Cardinality(associated_assets[a][asset_type]) <= n_associated_assets[a][asset_type].high

\* Mutant of accepts: a type the asset holds an association set for is
\* accepted, declared or not.
accepts_held_types(a, asset_type, force_accept) ==
  IF asset_type \notin DOMAIN n_associated_assets[a]
  THEN asset_type \in DOMAIN associated_assets[a]
  ELSE IF ~force_accept
       THEN Cardinality(associated_assets[a][asset_type]) < n_associated_assets[a][asset_type].value
       ELSE Cardinality(associated_assets[a][asset_type]) < n_associated_assets[a][asset_type].high

\* Asset.accepts
accepts(a, asset_type, force_accept) ==
  IF asset_type \notin DOMAIN n_associated_assets[a] THEN FALSE
  ELSE IF ~force_accept
       THEN Cardinality(associated_assets[a][asset_type]) < n_associated_assets[a][asset_type].value
       ELSE Cardinality(associated_assets[a][asset_type]) < n_associated_assets[a][asset_type].high

\* Mutant of associate: the reciprocal side is not updated.
associate_one_way(assoc, type_of, self, target) ==
  [assoc EXCEPT ![self][type_of[target]] = @ \cup {target}]

\* Asset.associate: the association sets after self.associate(target), where
\* 'assoc' are the sets before and 'type_of' gives each asset's type.
associate(assoc, type_of, self, target) ==
  LET a1 == [assoc EXCEPT ![self][type_of[target]] = @ \cup {target}]
      a2 == IF type_of[self] \notin DOMAIN a1[target]
            THEN [a1 EXCEPT ![target] = @ @@ (type_of[self] :> {})]
            ELSE a1
  IN [a2 EXCEPT ![target][type_of[self]] = @ \cup {self}]

\* Asset.associate raises KeyError: self has no association set for the
\* target's type.
associate_raises(assoc, type_of, self, target) ==
  type_of[target] \notin DOMAIN assoc[self]

\* A set.remove(x) on the dict entry d[k] raises KeyError: no such key, or x
\* is not in the set.
set_remove_raises(d, k, x) == k \notin DOMAIN d \/ x \notin d[k]

\* Mutant of disassociate: the sets' discard is used, a missing element is
\* not an error.
disassociate_silent(assoc, type_of, self, target) ==
  IF type_of[target] \notin DOMAIN assoc[self]
  THEN [associated_assets |-> assoc, raised |-> TRUE]
  ELSE LET a1 == [assoc EXCEPT ![self][type_of[target]] = @ \ {target}]
       IN IF type_of[self] \notin DOMAIN a1[target]
          THEN [associated_assets |-> a1, raised |-> TRUE]
          ELSE [associated_assets |-> [a1 EXCEPT ![target][type_of[self]] = @ \ {self}],
                raised |-> FALSE]

\* Asset.disassociate: the association sets after self.disassociate(target),
\* and whether the call raised KeyError. The first remove is done when the
\* second raises.
disassociate(assoc, type_of, self, target) ==
  IF set_remove_raises(assoc[self], type_of[target], target)
  THEN [associated_assets |-> assoc, raised |-> TRUE]
  ELSE LET a1 == [assoc EXCEPT ![self][type_of[target]] = @ \ {target}]
       IN IF set_remove_raises(a1[target], type_of[self], self)
          THEN [associated_assets |-> a1, raised |-> TRUE]
          ELSE [associated_assets |-> [a1 EXCEPT ![target][type_of[self]] = @ \ {self}],
                raised |-> FALSE]

\* The assets found in any association set of a.
neighbors(a) == UNION {associated_assets[a][k] : k \in DOMAIN associated_assets[a]}

\* Asset.disassociate_all raises: set.remove of a missing element or key, or
\* the set being iterated changes size (self is its own target).
disassociate_all_raises(self) ==
  \E target \in neighbors(self) :
    \/ target = self
    \/ asset_type_name[self] \notin DOMAIN associated_assets[target]
    \/ self \notin associated_assets[target][asset_type_name[self]]

\* Mutant of disassociate_all: each neighbor's whole set for the asset's type
\* is cleared.
disassociate_all_clearing_neighbors(self) ==
  [a \in Ids |->
     IF a = self THEN EmptyDict
     ELSE IF a \in neighbors(self)
          THEN [associated_assets[a] EXCEPT ![asset_type_name[self]] = {}]
          ELSE associated_assets[a]]

\* Mutant of disassociate_all: only the asset's own sets are cleared.
disassociate_all_own_sets_only(self) ==
  [associated_assets EXCEPT ![self] = EmptyDict]

\* Asset.disassociate_all: the association sets after self.disassociate_all().
disassociate_all(self) ==
  [a \in Ids |->
     IF a = self THEN EmptyDict
     ELSE IF a \in neighbors(self)
          THEN [associated_assets[a] EXCEPT ![asset_type_name[self]] = @ \ {self}]
          ELSE associated_assets[a]]

\* ----------------------------------------------------------------- src/model.py
\* Model.all_assets
all_assets == UNION {assets[t] : t \in DOMAIN assets}

\* Mutant of incompletely_associated_assets: generation_completed is not read.
incompletely_associated_assets_or_not == all_assets

\* Mutant of incompletely_associated_assets: only the first type's collection is read.
incompletely_associated_assets_of_first_type ==
  {a \in assets[metamodel.types[1]] : ~generation_completed[a]}

\* Model.incompletely_associated_assets
incompletely_associated_assets == {a \in all_assets : ~generation_completed[a]}

\* Mutant of available_targets: in force mode the target is not asked whether
\* it accepts.
available_targets_forced_on_target(source, target_asset_type, force) ==
  {a \in assets[target_asset_type] :
     /\ force \/ accepts(a, asset_type_name[source], force)
     /\ a \notin associated_assets[source][target_asset_type]
     /\ a # source}

\* Mutant of available_targets: the source asset itself is not filtered out.
available_targets_with_self(source, target_asset_type, force) ==
  {a \in assets[target_asset_type] :
     /\ accepts(a, asset_type_name[source], force)
     /\ a \notin associated_assets[source][target_asset_type]}

\* Model.available_targets
available_targets(source, target_asset_type, force) ==
  LET available_target_assets ==
        {a \in assets[target_asset_type] :
           /\ accepts(a, asset_type_name[source], force)
           /\ a \notin associated_assets[source][target_asset_type]}
  IN IF target_asset_type = asset_type_name[source]
     THEN {a \in available_target_assets : a # source}
     ELSE available_target_assets

\* The identity of the next Asset object.
NewAsset == Cardinality(created) + 1
PoolExhausted == Cardinality(created) >= MaxAssets

\* Asset.__init__: the target distributions an asset of type t can be given.
asset_targets(t) ==
  DictOf(DOMAIN metamodel.associated_assets[t],
         LAMBDA k : ProbabilityDistribution(metamodel.associated_assets[t][k], N_SAMPLES_FOR_BOUNDS))

\* Model.add, but for associated_assets: the new asset a of type t with the
\* sampled targets is constructed and put in the collection of its type.
add(a, t, targets) ==
  /\ created' = created \cup {a}
  /\ asset_type_name' = [asset_type_name EXCEPT ![a] = t]
  /\ name' = [name EXCEPT ![a] = Cardinality(assets[t])]
  /\ n_associated_assets' = [n_associated_assets EXCEPT ![a] = targets]
  /\ generation_completed' = [generation_completed EXCEPT ![a] = FALSE]
  /\ assets' = [assets EXCEPT ![t] = @ \cup {a}]

\* Asset.__init__: the association sets once the new asset a has its empty sets.
new_associated_assets(a, t) ==
  [associated_assets EXCEPT ![a] = [k \in DOMAIN metamodel.associated_assets[t] |-> {}]]

\* complete_associations: the loop over source_asset.n_associated_assets.keys()
keys == metamodel.order[asset_type_name[source_asset]]
in_loop == pc = "complete_associations" /\ type_idx <= Len(keys)
target_asset_type == keys[type_idx]

\* Mutant of may_add: force mode creates assets too.
may_add_in_force_mode(t, force) ==
  Cardinality(assets[t]) < n_assets[t].value

\* available_targets raises KeyError: self.assets has no such key.
available_targets_raises(t) == t \notin DOMAIN assets

\* complete_associations: a new asset of the type may be created.
may_add(t, force) ==
  /\ Cardinality(assets[t]) < n_assets[t].value
  /\ ~force

\* while source_asset.accepts(target_asset_type) is false: the next key.
NextType ==
  /\ in_loop
  /\ ~accepts(source_asset, target_asset_type, FALSE)
  /\ type_idx' = type_idx + 1
  /\ UNCHANGED <<model_vars, call, assets, heap_vars, associated_assets, pc,
                 source_asset, force_associate, ret, resolve_vars, err>>

\* target_asset = random.choice(available_target_assets); associate.
AssociateExisting ==
  /\ in_loop
  /\ accepts(source_asset, target_asset_type, FALSE)
  /\ ~available_targets_raises(target_asset_type)
  /\ \E target_asset \in available_targets(source_asset, target_asset_type, force_associate) :
       associated_assets' = associate(associated_assets, asset_type_name, source_asset, target_asset)
  /\ UNCHANGED <<model_vars, call, assets, heap_vars, pc, ca_vars, resolve_vars, err>>

\* Mutant of AddAndAssociate: a new asset is created without looking for an
\* available target first.
AddAndAssociate_without_looking ==
  /\ in_loop
  /\ accepts(source_asset, target_asset_type, FALSE)
  /\ ~available_targets_raises(target_asset_type)
  /\ may_add(target_asset_type, force_associate)
  /\ ~PoolExhausted
  /\ \E targets \in asset_targets(target_asset_type) :
       /\ add(NewAsset, target_asset_type, targets)
       /\ associated_assets' = associate(new_associated_assets(NewAsset, target_asset_type),
                                         asset_type_name', source_asset, NewAsset)
  /\ UNCHANGED <<model_vars, call, pc, ca_vars, resolve_vars, err>>

\* target_asset = self.add(target_asset_type); associate.
AddAndAssociate ==
  /\ in_loop
  /\ accepts(source_asset, target_asset_type, FALSE)
  /\ ~available_targets_raises(target_asset_type)
  /\ available_targets(source_asset, target_asset_type, force_associate) = {}
  /\ may_add(target_asset_type, force_associate)
  /\ ~PoolExhausted
  /\ \E targets \in asset_targets(target_asset_type) :
       /\ add(NewAsset, target_asset_type, targets)
       /\ associated_assets' = associate(new_associated_assets(NewAsset, target_asset_type),
                                         asset_type_name', source_asset, NewAsset)
  /\ UNCHANGED <<model_vars, call, pc, ca_vars, resolve_vars, err>>

\* No target: break.
Break ==
  /\ in_loop
  /\ accepts(source_asset, target_asset_type, FALSE)
  /\ ~available_targets_raises(target_asset_type)
  /\ available_targets(source_asset, target_asset_type, force_associate) = {}
  /\ ~may_add(target_asset_type, force_associate)
  /\ type_idx' = type_idx + 1
  /\ UNCHANGED <<model_vars, call, assets, heap_vars, associated_assets, pc,
                 source_asset, force_associate, ret, resolve_vars, err>>

\* self.assets[target_asset_type] raises KeyError in available_targets: the
\* exception leaves complete_associations and sample().
RaiseKeyError ==
  /\ in_loop
  /\ accepts(source_asset, target_asset_type, FALSE)
  /\ available_targets_raises(target_asset_type)
  /\ err' = "KeyError"
  /\ pc' = "raised"
  /\ UNCHANGED <<model_vars, call, assets, heap_vars, associated_assets, ca_vars, resolve_vars>>

\* Mutant of Completed: a forced call leaves the asset growing again.
Completed_reopening ==
  /\ pc = "complete_associations"
  /\ type_idx > Len(keys)
  /\ generation_completed' = [generation_completed EXCEPT ![source_asset] = ~force_associate]
  /\ pc' = ret
  /\ UNCHANGED <<model_vars, call, assets, created, asset_type_name, name, n_associated_assets,
                 associated_assets, ca_vars, resolve_vars, err>>

\* source_asset.generation_completed = True, and the call returns.
Completed ==
  /\ pc = "complete_associations"
  /\ type_idx > Len(keys)
  /\ generation_completed' = [generation_completed EXCEPT ![source_asset] = TRUE]
  /\ pc' = ret
  /\ UNCHANGED <<model_vars, call, assets, created, asset_type_name, name, n_associated_assets,
                 associated_assets, ca_vars, resolve_vars, err>>

\* The call self.complete_associations(a, force).
call_complete_associations(a, force, return_to) ==
  /\ pc' = "complete_associations"
  /\ source_asset' = a
  /\ type_idx' = 1
  /\ force_associate' = force
  /\ ret' = return_to

\* Model.select_initial_asset_type
select_initial_asset_type == Range(metamodel.types)

\* sample(): the initial asset is added and complete_associations is called on it.
SampleStart ==
  /\ pc = "constructed"
  /\ \E initial_asset_type \in select_initial_asset_type :
       \E targets \in asset_targets(initial_asset_type) :
         /\ add(NewAsset, initial_asset_type, targets)
         /\ associated_assets' = new_associated_assets(NewAsset, initial_asset_type)
         /\ call_complete_associations(NewAsset, FALSE, "growth")
  /\ UNCHANGED <<model_vars, call, resolve_vars, err>>

\* sample(): asset = random.choice(self.incompletely_associated_assets())
GrowthPick ==
  /\ pc = "growth"
  /\ \E asset \in incompletely_associated_assets :
       call_complete_associations(asset, FALSE, "growth")
  /\ UNCHANGED <<model_vars, call, assets, heap_vars, associated_assets, resolve_vars, err>>

\* sample(): no incompletely associated asset is left, sample() returns.
SampleReturn ==
  /\ pc = "growth"
  /\ incompletely_associated_assets = {}
  /\ pc' = "sampled"
  /\ UNCHANGED <<model_vars, call, assets, heap_vars, associated_assets, ca_vars, resolve_vars, err>>

\* Position of a type in the metamodel's key order (the order of self.assets).
type_index(t) == CHOOSE i \in DOMAIN metamodel.types : metamodel.types[i] = t

\* Mutant of out_of_band: a count above high is not looked at.
out_of_band_below_only(asset) ==
  {t \in DOMAIN n_associated_assets[asset] :
     Cardinality(associated_assets[asset][t]) < n_associated_assets[asset][t].low}

\* check_consistency: the declared neighbor types for which the asset's
\* realized count is below low or above high.
out_of_band(asset) ==
  {t \in DOMAIN n_associated_assets[asset] :
     \/ Cardinality(associated_assets[asset][t]) < n_associated_assets[asset][t].low
     \/ Cardinality(associated_assets[asset][t]) > n_associated_assets[asset][t].high}

\* Mutant of check_consistency: the list is kept from one call to the next,
\* and each call appends to it.
check_consistency_accumulating ==
  LET found == {a \in all_assets : out_of_band(a) # {}}
      kept == DOMAIN inconsistent_assets
  IN [asset \in kept \cup found |->
        (IF asset \in kept THEN inconsistent_assets[asset] ELSE 0)
        + (IF asset \in found THEN Cardinality(out_of_band(asset)) ELSE 0)]

\* Model.check_consistency: the list 'inconsistent', as the number of times
\* each asset is appended to it (once per neighbor type out of band). The
\* list follows all_assets(): the assets type by type in key order, the
\* assets of one type in the set's order, an asset's entries next to each other.
check_consistency ==
  [asset \in {a \in all_assets : out_of_band(a) # {}} |-> Cardinality(out_of_band(asset))]

\* What check_consistency() reads: the collections of the model, and the
\* targets and association sets of the assets in them.
read_by_check_consistency ==
  <<assets, [a \in all_assets |-> <<n_associated_assets[a], associated_assets[a]>>]>>

\* The record of a check_consistency() call made in the current state.
call_check_consistency ==
  [read |-> read_by_check_consistency,
   repeated |-> checked.read = read_by_check_consistency]

\* The elements a for loop over the list can visit next.
for_next(rest, last) ==
  LET remaining == {a \in DOMAIN rest : rest[a] > 0}
  IN IF last \in remaining THEN {last}
     ELSE {a \in remaining : \A b \in remaining :
             type_index(asset_type_name[a]) <= type_index(asset_type_name[b])}

for_visit(rest, a) == [rest EXCEPT ![a] = @ - 1]

\* Mutant of remove: the collection's remove is called without testing
\* membership, and raises KeyError for an asset that is not in it.
remove_unguarded(asset) ==
  IF disassociate_all_raises(asset) \/ asset \notin assets[asset_type_name[asset]]
  THEN /\ err' = "KeyError"
       /\ pc' = "raised"
       /\ UNCHANGED <<assets, associated_assets>>
  ELSE /\ associated_assets' = disassociate_all(asset)
       /\ assets' = [assets EXCEPT ![asset_type_name[asset]] = @ \ {asset}]
       /\ UNCHANGED <<err, pc>>

\* Mutant of remove: the asset and its associations are left in the model.
remove_nothing(asset) == UNCHANGED <<assets, associated_assets, err, pc>>

\* Model.remove
remove(asset) ==
  IF disassociate_all_raises(asset)
  THEN /\ err' = "KeyError"
       /\ pc' = "raised"
       /\ UNCHANGED <<assets, associated_assets>>
  ELSE /\ associated_assets' = disassociate_all(asset)
       /\ assets' = [assets EXCEPT ![asset_type_name[asset]] = @ \ {asset}]
       /\ UNCHANGED <<err, pc>>

\* resolve_inconsistency(): inconsistent_assets = self.check_consistency(); counter = 0
ResolveStart ==
  /\ pc = "sampled"
  /\ inconsistent_assets' = check_consistency
  /\ checked' = call_check_consistency
  /\ counter' = 0
  /\ pc' = "while"
  /\ UNCHANGED <<model_vars, call, assets, heap_vars, associated_assets, ca_vars,
                 loop_rest, loop_last, failed, err>>

\* Mutant of PassStart: a pass is made before the list is tested (do ... while).
PassStart_before_test ==
  /\ pc = "while"
  /\ inconsistent_assets # EmptyList \/ counter = 0
  /\ counter' = counter + 1
  /\ loop_rest' = inconsistent_assets
  /\ loop_last' = NoAsset
  /\ pc' = "force"
  /\ UNCHANGED <<model_vars, call, assets, heap_vars, associated_assets, ca_vars,
                 inconsistent_assets, failed, checked, err>>

\* while inconsistent_assets: counter += 1, and the first for loop starts.
PassStart ==
  /\ pc = "while"
  /\ inconsistent_assets # EmptyList
  /\ counter' = counter + 1
  /\ loop_rest' = inconsistent_assets
  /\ loop_last' = NoAsset
  /\ pc' = "force"
  /\ UNCHANGED <<model_vars, call, assets, heap_vars, associated_assets, ca_vars,
                 inconsistent_assets, failed, checked, err>>

\* while inconsistent_assets: the list is empty, resolve_inconsistency returns.
ResolveReturn ==
  /\ pc = "while"
  /\ inconsistent_assets = EmptyList
  /\ pc' = "done"
  /\ UNCHANGED <<model_vars, call, assets, heap_vars, associated_assets, ca_vars, resolve_vars, err>>

\* for inconsistent_asset in inconsistent_assets:
\*     self.complete_associations(inconsistent_asset, force_associate=True)
ForceNext ==
  /\ pc = "force"
  /\ \E inconsistent_asset \in for_next(loop_rest, loop_last) :
       /\ loop_rest' = for_visit(loop_rest, inconsistent_asset)
       /\ loop_last' = inconsistent_asset
       /\ call_complete_associations(inconsistent_asset, TRUE, "force")
  /\ UNCHANGED <<model_vars, call, assets, heap_vars, associated_assets,
                 inconsistent_assets, counter, failed, checked, err>>

\* The first for loop is over: inconsistent_assets = self.check_consistency(),
\* and the second for loop starts.
ForceEnd ==
  /\ pc = "force"
  /\ for_next(loop_rest, loop_last) = {}
  /\ inconsistent_assets' = check_consistency
  /\ checked' = call_check_consistency
  /\ loop_rest' = check_consistency
  /\ loop_last' = NoAsset
  /\ pc' = "remove"
  /\ UNCHANGED <<model_vars, call, assets, heap_vars, associated_assets, ca_vars,
                 counter, failed, err>>

\* for inconsistent_asset in inconsistent_assets: self.remove(inconsistent_asset)
RemoveNext ==
  /\ pc = "remove"
  /\ \E inconsistent_asset \in for_next(loop_rest, loop_last) :
       /\ loop_rest' = for_visit(loop_rest, inconsistent_asset)
       /\ loop_last' = inconsistent_asset
       /\ remove(inconsistent_asset)
  /\ UNCHANGED <<model_vars, call, heap_vars, ca_vars, inconsistent_assets, counter, failed, checked>>

\* Mutant of limit_exceeded: the limit itself counts as exceeded.
limit_exceeded_at_limit(c) == c >= n_consistency_resolution_attempts

\* Mutant of limit_exceeded: one more pass is allowed.
limit_exceeded_one_late(c) == c > n_consistency_resolution_attempts + 1

\* The attempt limit is exceeded.
limit_exceeded(c) == c > n_consistency_resolution_attempts

\* The second for loop is over: inconsistent_assets = self.check_consistency();
\* if counter > N_INCONSISTENCY_RESOLUTION_ATTEMPTS: print(...); break
PassEnd ==
  /\ pc = "remove"
  /\ for_next(loop_rest, loop_last) = {}
  /\ inconsistent_assets' = check_consistency
  /\ checked' = call_check_consistency
  /\ IF limit_exceeded(counter)
     THEN failed' = TRUE /\ pc' = "done"
     ELSE failed' = failed /\ pc' = "while"
  /\ UNCHANGED <<model_vars, call, assets, heap_vars, associated_assets, ca_vars,
                 loop_rest, loop_last, counter, err>>

Next ==
  \/ SampleStart
  \/ GrowthPick
  \/ SampleReturn
  \/ NextType
  \/ AssociateExisting
  \/ AddAndAssociate
  \/ Break
  \/ RaiseKeyError
  \/ Completed
  \/ ResolveStart
  \/ PassStart
  \/ ResolveReturn
  \/ ForceNext
  \/ ForceEnd
  \/ RemoveNext
  \/ PassEnd

Spec == Init /\ [][Next]_vars
\* sample() and resolve_inconsistency() run to completion without suspension:
\* an enabled step is taken.
FairSpec == Spec /\ WF_vars(Next)

\* The caller adds one more asset, by Model.add, to the model that
\* resolve_inconsistency() has returned from. One such call is explored: the
\* asset it adds is the only one whose generation is not completed.
AddAgain ==
  /\ pc = "done"
  /\ incompletely_associated_assets = {}
  /\ ~PoolExhausted
  /\ \E asset_type \in Range(metamodel.types) :
       \E targets \in asset_targets(asset_type) :
         /\ add(NewAsset, asset_type, targets)
         /\ associated_assets' = new_associated_assets(NewAsset, asset_type)
  /\ UNCHANGED <<model_vars, call, pc, ca_vars, resolve_vars, err>>

\* Runs in which the caller adds an asset after the repair.
NextAgain ==
  \/ Next
  \/ AddAgain

SpecAgain == Init /\ [][NextAgain]_vars

\* The caller calls self.associate(target) on two Asset objects of the model
\* that resolve_inconsistency() has returned from. One call is explored.
AssociateCall ==
  /\ pc = "done"
  /\ \E self \in created : \E target \in created :
       /\ call' = [op |-> "associate", self |-> self, target |-> target]
       /\ IF associate_raises(associated_assets, asset_type_name, self, target)
          THEN /\ err' = "KeyError"
               /\ associated_assets' = associated_assets
          ELSE /\ err' = err
               /\ associated_assets' = associate(associated_assets, asset_type_name, self, target)
  /\ pc' = "called"
  /\ UNCHANGED <<model_vars, assets, heap_vars, ca_vars, resolve_vars>>

\* The caller calls self.disassociate(target). One call is explored.
DisassociateCall ==
  /\ pc = "done"
  /\ \E self \in created : \E target \in created :
       LET r == disassociate(associated_assets, asset_type_name, self, target)
       IN /\ call' = [op |-> "disassociate", self |-> self, target |-> target]
          /\ err' = IF r.raised THEN "KeyError" ELSE err
          /\ associated_assets' = r.associated_assets
  /\ pc' = "called"
  /\ UNCHANGED <<model_vars, assets, heap_vars, ca_vars, resolve_vars>>

\* Runs in which the caller calls an Asset method after the repair.
NextCall ==
  \/ Next
  \/ AssociateCall
  \/ DisassociateCall

SpecCall == Init /\ [][NextCall]_vars

\* The caller calls resolve_inconsistency() on the model as constructed,
\* before sample(): the model is empty.
ResolveUnsampled ==
  /\ pc = "constructed"
  /\ inconsistent_assets' = check_consistency
  /\ checked' = call_check_consistency
  /\ counter' = 0
  /\ pc' = "while"
  /\ UNCHANGED <<model_vars, call, assets, heap_vars, associated_assets, ca_vars,
                 loop_rest, loop_last, failed, err>>

\* Runs in which resolve_inconsistency() may be called on the empty model.
NextUnsampled ==
  \/ Next
  \/ ResolveUnsampled

SpecUnsampled == Init /\ [][NextUnsampled]_vars

\* ------------------------------------------------------------------- claims
\* b is in a.associated_assets[type(b)]; a missing dict key holds nothing.
associated(a, b) ==
  /\ asset_type_name[b] \in DOMAIN associated_assets[a]
  /\ b \in associated_assets[a][asset_type_name[b]]

removed_assets == created \ all_assets

\* C1. Association symmetry: in every state of sample() followed by
\* resolve_inconsistency(), for all assets A and B, B is in
\* A.associated_assets[type(B)] iff A is in B.associated_assets[type(A)].
C1_AssociationSymmetry ==
  \A a \in created : \A b \in created : associated(a, b) <=> associated(b, a)

\* An asset has been removed while two assets of the model are associated,
\* one of them through a set for a type it does not declare.
C1_Witness ==
  /\ removed_assets # {}
  /\ \E a \in all_assets : \E b \in all_assets :
       /\ associated(a, b)
       /\ asset_type_name[b] \notin DOMAIN n_associated_assets[a]

\* C2. No self-loops: no asset A is a member of A.associated_assets[type(A)],
\* also for types that declare an association to their own type, in normal
\* mode and in force mode.
C2_NoSelfLoops ==
  \A a \in created : ~associated(a, a)

\* In force mode the source looks for targets of its own type while it would
\* itself pass the acceptance test of available_targets.
C2_Witness ==
  /\ in_loop
  /\ force_associate
  /\ target_asset_type = asset_type_name[source_asset]
  /\ accepts(source_asset, target_asset_type, FALSE)
  /\ accepts(source_asset, asset_type_name[source_asset], TRUE)

\* C3. No dangling references: every asset found in an association set of an
\* asset of the model is itself in the model; a removed asset's own
\* association sets are empty.
C3_NoDanglingReferences ==
  /\ \A a \in all_assets : neighbors(a) \subseteq all_assets
  /\ \A a \in removed_assets : associated_assets[a] = EmptyDict

\* An asset was just removed, and an asset still in the model keeps a set for
\* the removed asset's type that is short of its target value.
C3_Witness ==
  /\ pc = "remove"
  /\ loop_last \in removed_assets
  /\ \E b \in all_assets :
       /\ asset_type_name[loop_last] \in DOMAIN associated_assets[b]
       /\ accepts(b, asset_type_name[loop_last], FALSE)
       /\ generation_completed[b]

stuck_on_pool ==
  /\ in_loop
  /\ accepts(source_asset, target_asset_type, FALSE)
  /\ ~available_targets_raises(target_asset_type)
  /\ available_targets(source_asset, target_asset_type, force_associate) = {}
  /\ may_add(target_asset_type, force_associate)
  /\ PoolExhausted

C4_OnlyCyclicGrowsWithoutEnd ==
  /\ stuck_on_pool => metamodel = MM_Cyclic
  /\ (metamodel = MM_Cyclic /\ pc = "growth") => incompletely_associated_assets # {}

\* C5. When sample() returns, every asset in the model has
\* generation_completed = true, also the assets created as a side effect of
\* another asset's complete_associations and the assets left with a deficit.
C5_AllCompletedWhenSampled ==
  pc = "sampled" => \A a \in all_assets : generation_completed[a]

\* sample() has returned with an asset that was created on demand and an
\* asset that is below its target value.
C5_Witness ==
  /\ pc = "sampled"
  /\ Cardinality(all_assets) >= 2
  /\ \E a \in all_assets : \E t \in DOMAIN n_associated_assets[a] : accepts(a, t, FALSE)

\* C6. Bounded population: when sample() returns, every type that declares
\* 'n' has at most n_assets[type].value assets, the initial asset included.
C6_BoundedPopulation ==
  pc = "sampled" =>
    \A t \in DOMAIN metamodel.n : Cardinality(assets[t]) <= n_assets[t].value

\* C7. Repair never creates assets: during resolve_inconsistency() no Asset
\* is constructed and the collection of every type only shrinks.
in_repair ==
  \/ pc \in {"while", "force", "remove"}
  \/ pc = "complete_associations" /\ force_associate

C7_RepairNeverCreates ==
  [][in_repair => /\ created' = created
                  /\ \A t \in DOMAIN assets : assets'[t] \subseteq assets[t]]_vars

\* A forced completion finds no target for a type whose population is below
\* its cap: the normal mode would create an asset here.
C7_Witness ==
  /\ in_loop
  /\ force_associate
  /\ accepts(source_asset, target_asset_type, FALSE)
  /\ available_targets(source_asset, target_asset_type, TRUE) = {}
  /\ Cardinality(assets[target_asset_type]) < n_assets[target_asset_type].value

C9_AtMostMaxAttemptsPasses ==
  counter <= n_consistency_resolution_attempts

\* C10. resolve_inconsistency() reports failure only when inconsistent assets
\* remain at the moment it returns.
C10_FailureOnlyWithResidue ==
  (pc = "done" /\ failed) => check_consistency # EmptyList

\* C11: the list check_consistency() returns holds exactly the assets of the
\* model that have a declared neighbor type whose realized count is below
\* target.low or above target.high; an asset whose declared types are all
\* within the band is not in it, whatever its undeclared reciprocal sets hold.
\* (inconsistent_assets is the returned list whenever pc is "while" or "done".)
within_band(a, t) ==
  /\ n_associated_assets[a][t].low <= Cardinality(associated_assets[a][t])
  /\ Cardinality(associated_assets[a][t]) <= n_associated_assets[a][t].high

reciprocal_slots(a) == DOMAIN associated_assets[a] \ DOMAIN n_associated_assets[a]

C11_CheckConsistencyExact ==
  pc \in {"while", "done"} =>
    \A a \in Ids :
      a \in DOMAIN inconsistent_assets <=>
        /\ a \in all_assets
        /\ \E t \in DOMAIN n_associated_assets[a] : ~within_band(a, t)

\* A check that returned some asset and left out an asset of the model whose
\* undeclared reciprocal slot is not empty.
C11_Witness ==
  /\ pc = "while"
  /\ inconsistent_assets # EmptyList
  /\ \E b \in all_assets \ DOMAIN inconsistent_assets :
       \E t \in reciprocal_slots(b) : associated_assets[b][t] # {}

\* C12: check_consistency() is read-only and repeatable. A step that calls it
\* changes no asset, no association set and no collection of the model, and
\* when nothing it reads has changed since the call before, it returns the
\* list that call returned.
check_consistency_called ==
  \/ pc = "sampled" /\ pc' = "while"
  \/ pc = "force" /\ pc' = "remove"
  \/ pc = "remove" /\ pc' \in {"while", "done"}

C13_ScenarioThreeA ==
  (metamodel = MM_Scenario /\ pc = "sampled") =>
    /\ Cardinality(assets["A"]) = 3
    /\ Cardinality(assets["B"]) >= 3
    /\ \A a \in assets["A"] : Cardinality(associated_assets[a]["B"]) = 2
    /\ \A b \in assets["B"] : Cardinality(associated_assets[b]["A"]) = 1
    /\ check_consistency = EmptyList

\* What sample() does return for that metamodel, whichever the initial type:
\* one A with its two B neighbors, and nothing out of band.
C13_ScenarioOneA ==
  (metamodel = MM_Scenario /\ pc = "sampled") =>
    /\ Cardinality(assets["A"]) = 1
    /\ Cardinality(assets["B"]) = 2
    /\ \A a \in assets["A"] : associated_assets[a]["B"] = assets["B"]
    /\ \A b \in assets["B"] : associated_assets[b]["A"] = assets["A"]
    /\ check_consistency = EmptyList

\* C14 (as stated): for the metamodel A and B, each with population
\* Constant(1) and each needing Constant(2) of the other, sample() followed by
\* resolve_inconsistency() leaves check_consistency() non-empty after the
\* repair and reports non-convergence.
C14_ResidualInconsistency ==
  (metamodel = MM_Caps /\ pc = "done") =>
    /\ check_consistency # EmptyList
    /\ failed

\* C14 (amended): for that metamodel the run always reaches the end of
\* resolve_inconsistency(), and with an attempt limit of at least 1 it ends
\* after one pass with both assets removed, check_consistency() empty and no
\* failure reported.
C14_MismatchedCapsEmptiesModel ==
  /\ [](metamodel = MM_Caps) ~> (pc = "done")
  /\ []((metamodel = MM_Caps /\ pc = "done" /\ n_consistency_resolution_attempts >= 1) =>
          /\ all_assets = {}
          /\ check_consistency = EmptyList
          /\ counter = 1
          /\ ~failed)

\* The repair of the mismatched-caps model is over and has removed assets.
C14_Witness ==
  /\ metamodel = MM_Caps
  /\ pc = "done"
  /\ n_consistency_resolution_attempts >= 1
  /\ Cardinality(removed_assets) = 2

\* C15: in force mode complete_associations keeps associating the source
\* asset with available targets of a neighbor type for as long as its count
\* for that type is below target.high: when the while loop over a type is
\* left in force mode, the count has reached target.high or no target is
\* available. (The loop is left where accepts, as the code calls it, is false.)
C15_ForceFillsToHigh ==
  (/\ in_loop
   /\ force_associate
   /\ ~available_targets_raises(target_asset_type)
   /\ ~accepts(source_asset, target_asset_type, FALSE)) =>
    \/ ~accepts(source_asset, target_asset_type, TRUE)
    \/ available_targets(source_asset, target_asset_type, TRUE) = {}

\* C16: Asset.accepts(t, force) is false whenever t is no key of the asset's
\* n_associated_assets, even if the asset holds a reciprocal association set
\* for t; otherwise it is true exactly when the realized count for t is
\* strictly less than target.value (force false) or target.high (force true).
TypeNames == {"A", "B", "C", "X"}

C16_AcceptsSemantics ==
  \A a \in all_assets : \A t \in TypeNames :
    /\ t \notin DOMAIN n_associated_assets[a] =>
         ~accepts(a, t, FALSE) /\ ~accepts(a, t, TRUE)
    /\ t \in DOMAIN n_associated_assets[a] =>
         /\ accepts(a, t, FALSE) <=>
              Cardinality(associated_assets[a][t]) < n_associated_assets[a][t].value
         /\ accepts(a, t, TRUE) <=>
              Cardinality(associated_assets[a][t]) < n_associated_assets[a][t].high

\* complete_associations runs while one asset holds a non-empty reciprocal set
\* for a type it does not declare, and another has reached target.value of a
\* declared type but not target.high.
C16_Witness ==
  /\ in_loop
  /\ \E b \in all_assets : \E t \in reciprocal_slots(b) : associated_assets[b][t] # {}
  /\ \E a \in all_assets : \E t \in DOMAIN n_associated_assets[a] :
       accepts(a, t, TRUE) /\ ~accepts(a, t, FALSE)

\* C17: every ProbabilityDistribution constructed with a bound-sample count of
\* at least 1 has low <= value <= high, and no later operation changes the
\* value, low or high of a distribution of the model or of an asset.
in_band(d) == d.low <= d.value /\ d.value <= d.high

distributions ==
  {n_assets[t] : t \in DOMAIN n_assets}
    \cup UNION {{n_associated_assets[a][t] : t \in DOMAIN n_associated_assets[a]} : a \in created}

distribution_dicts ==
  {population(metamodel, t) : t \in Range(metamodel.types)}
    \cup UNION {{metamodel.associated_assets[t][k] : k \in DOMAIN metamodel.associated_assets[t]} :
                  t \in Range(metamodel.types)}

C17_BandHoldsAndIsFrozen ==
  /\ [](\A d \in distributions : in_band(d))
  /\ [](\A dd \in distribution_dicts : \A n \in 1..N_SAMPLES_FOR_BOUNDS :
          \A d \in ProbabilityDistribution(dd, n) : in_band(d))
  /\ [][/\ n_assets' = n_assets
         /\ \A a \in created : n_associated_assets'[a] = n_associated_assets[a]]_vars

\* The repair is over and has removed assets, and some distribution has
\* low < high.
C17_Witness ==
  /\ pc = "done"
  /\ removed_assets # {}
  /\ \E d \in distributions : d.low < d.high

\* C18: for a Constant(n) distribution every call of sample() returns n, and
\* after construction value = low = high = n, for any bound-sample count of
\* at least 1.
is_n(d, n) == d.value = n /\ d.low = n /\ d.high = n

C18_ConstantIsExact ==
  /\ \A dd \in distribution_dicts :
       dd.distribution = "Constant" =>
         /\ sample(dd) = {dd.n}
         /\ \A n \in 1..N_SAMPLES_FOR_BOUNDS :
              \A d \in ProbabilityDistribution(dd, n) : is_n(d, dd.n)
  /\ \A t \in DOMAIN n_assets :
       population(metamodel, t).distribution = "Constant" =>
         is_n(n_assets[t], population(metamodel, t).n)
  /\ \A a \in created : \A t \in DOMAIN n_associated_assets[a] :
       LET dd == metamodel.associated_assets[asset_type_name[a]][t]
       IN dd.distribution = "Constant" => is_n(n_associated_assets[a][t], dd.n)

\* sample() has returned and an asset was constructed with a Constant target
\* of at least 1.
C18_Witness ==
  /\ pc = "sampled"
  /\ \E a \in all_assets : \E t \in DOMAIN n_associated_assets[a] :
       /\ metamodel.associated_assets[asset_type_name[a]][t].distribution = "Constant"
       /\ n_associated_assets[a][t].value >= 1

\* C19: a type whose metamodel entry has no 'n' is unbounded. Model gives it
\* the cap Constant(sys.maxsize); exactly the types that declare 'n' have
\* n_assets[type].value < sys.maxsize; and during sample() the population cap
\* never refuses the creation of an asset of a type without 'n'.
declares_n(t) == t \in DOMAIN metamodel.n

C19_NoCapMeansUnbounded ==
  /\ \A t \in DOMAIN n_assets :
       /\ ~declares_n(t) =>
            /\ n_assets[t].value = SysMaxsize
            /\ n_assets[t].low = SysMaxsize
            /\ n_assets[t].high = SysMaxsize
       /\ declares_n(t) <=> n_assets[t].value < SysMaxsize
  /\ (/\ in_loop
      /\ ~force_associate
      /\ ~available_targets_raises(target_asset_type)
      /\ ~declares_n(target_asset_type)) =>
       /\ Cardinality(assets[target_asset_type]) < n_assets[target_asset_type].value
       /\ may_add(target_asset_type, force_associate)

\* The source asset needs one more target of a type without 'n', assets of
\* that type exist but none is available: one more is created.
C19_Witness ==
  /\ in_loop
  /\ ~force_associate
  /\ ~available_targets_raises(target_asset_type)
  /\ ~declares_n(target_asset_type)
  /\ accepts(source_asset, target_asset_type, FALSE)
  /\ available_targets(source_asset, target_asset_type, FALSE) = {}
  /\ assets[target_asset_type] # {}
  /\ ~PoolExhausted

\* C20: a metamodel in which a type's associated_assets names an asset type
\* that is no key of the metamodel is rejected at Model construction or at add
\* time, so that no asset referring to the unknown type is ever left in the
\* model.
C20_NoAssetRefersToUnknownType ==
  \A a \in all_assets : DOMAIN n_associated_assets[a] \subseteq DOMAIN assets

\* What happens instead: construction and add succeed, and a run ends with an
\* exception only where complete_associations looks for targets of the
\* unknown type, the asset still in the model.
C20_UnknownTypeSurfacesLate ==
  (metamodel = MM_Unknown /\ pc \notin {"constructed"}) =>
    /\ \E a \in all_assets : "X" \in DOMAIN n_associated_assets[a]
    /\ pc = "raised" =>
         /\ err = "KeyError"
         /\ accepts(source_asset, "X", FALSE)

\* C21: asset names are unique within their type: no two assets of the same
\* type that are in the model at the same time have the same name, also when
\* assets are added to a model that was sampled and repaired.
C21_NamesUniqueWithinType ==
  \A a, b \in all_assets :
    (a # b /\ asset_type_name[a] = asset_type_name[b]) => name[a] # name[b]

\* C22: when complete_associations(asset, force_associate=False)
\* returns with the asset's count for a declared neighbor type t below
\* target.value, no existing asset of type t is an available target and the
\* population of t has reached n_assets[t].value; consequently, for a neighbor
\* type without population cap, the count equals target.value when the call
\* returns.
returning == pc = "complete_associations" /\ type_idx > Len(keys)

deficit(a, t) ==
  Cardinality(associated_assets[a][t]) < n_associated_assets[a][t].value

exhausted(a, t) ==
  /\ t \in DOMAIN assets
  /\ available_targets(a, t, FALSE) = {}
  /\ Cardinality(assets[t]) >= n_assets[t].value

C22_ExhaustionIsOnlyCause ==
  (returning /\ ~force_associate) =>
    \A t \in DOMAIN n_associated_assets[source_asset] :
      /\ deficit(source_asset, t) => exhausted(source_asset, t)
      /\ (t \in DOMAIN assets /\ ~declares_n(t)) =>
           Cardinality(associated_assets[source_asset][t])
             = n_associated_assets[source_asset][t].value

\* What holds: a deficit is left only by exhaustion, and for a neighbor type
\* without population cap the count is at least target.value when the call
\* returns; it is above it for an asset that was created for a source and
\* associated with it whatever its own target.
C22_DeficitOnlyByExhaustion ==
  (returning /\ ~force_associate) =>
    \A t \in DOMAIN n_associated_assets[source_asset] :
      /\ deficit(source_asset, t) => exhausted(source_asset, t)
      /\ (t \in DOMAIN assets /\ ~declares_n(t)) =>
           Cardinality(associated_assets[source_asset][t])
             >= n_associated_assets[source_asset][t].value

\* C23: during complete_associations a new asset of neighbor type t is
\* created only in a step where available_targets(source, t) is empty, force
\* is false and the number of assets of type t is strictly below
\* n_assets[t].value; whenever an available existing target exists, the
\* association made in that step goes to an existing asset and the population
\* is unchanged.
looking_for_target ==
  /\ in_loop
  /\ ~available_targets_raises(target_asset_type)
  /\ accepts(source_asset, target_asset_type, FALSE)

gained(a, t) ==
  (IF t \in DOMAIN associated_assets'[a] THEN associated_assets'[a][t] ELSE {})
    \ (IF t \in DOMAIN associated_assets[a] THEN associated_assets[a][t] ELSE {})

C23_ReuseBeforeCreation ==
  [][/\ (pc = "complete_associations" /\ created' # created) =>
          /\ looking_for_target
          /\ available_targets(source_asset, target_asset_type, force_associate) = {}
          /\ ~force_associate
          /\ Cardinality(assets[target_asset_type]) < n_assets[target_asset_type].value
          /\ assets'[target_asset_type] \ assets[target_asset_type] = created' \ created
     /\ (/\ looking_for_target
         /\ available_targets(source_asset, target_asset_type, force_associate) # {}
         /\ associated_assets' # associated_assets) =>
          /\ created' = created
          /\ assets' = assets
          /\ gained(source_asset, target_asset_type) # {}
          /\ gained(source_asset, target_asset_type) \subseteq
               available_targets(source_asset, target_asset_type, force_associate)]_vars

\* A target is available while the cap would allow a new asset: the existing
\* one is taken.
C23_Witness ==
  /\ looking_for_target
  /\ available_targets(source_asset, target_asset_type, force_associate) # {}
  /\ may_add(target_asset_type, force_associate)
  /\ ~PoolExhausted

\* C24: during the growth phase of sample(), complete_associations is run at
\* most once, as source, on each asset: the growth loop never selects an asset
\* whose generation_completed is true, and while sample() runs a completed
\* asset stays completed; it may still be taken as the target of another asset.
in_sample == ~force_associate /\ pc \in {"constructed", "growth", "complete_associations"}

C24_GrowthRunsOncePerAsset ==
  [][in_sample =>
       /\ (pc # "complete_associations" /\ pc' = "complete_associations") =>
            ~generation_completed[source_asset']
       /\ \A a \in created : generation_completed[a] => generation_completed'[a]]_vars

\* The growth loop selects its next asset while the model holds completed
\* assets and assets that are not completed.
C24_Witness ==
  /\ pc = "growth"
  /\ incompletely_associated_assets # {}
  /\ all_assets \ incompletely_associated_assets # {}

\* In normal mode no completed asset is ever an available target: a completed
\* asset accepts only a type it could not get, and that type gets no new asset.
C24_CompletedIsNeverAvailable ==
  (looking_for_target /\ ~force_associate) =>
    \A target \in available_targets(source_asset, target_asset_type, FALSE) :
      ~generation_completed[target]

\* C25: over a run of sample() followed by resolve_inconsistency() each asset
\* moves only along created -> generation_completed -> removed: sample()
\* never removes an asset or an association, generation_completed never
\* changes from true back to false, an asset is removed only by
\* resolve_inconsistency and only after its generation_completed is true, and
\* a removed asset never re-enters the model and never regains an association.
keeps_associations(a) ==
  \A k \in DOMAIN associated_assets[a] :
    /\ k \in DOMAIN associated_assets'[a]
    /\ associated_assets[a][k] \subseteq associated_assets'[a][k]

C25_AssetLifecycle ==
  [][/\ in_sample =>
          /\ \A t \in DOMAIN assets : assets[t] \subseteq assets'[t]
          /\ \A a \in created : keeps_associations(a)
     /\ \A a \in created : generation_completed[a] => generation_completed'[a]
     /\ \A a \in all_assets \ all_assets' :
          /\ pc = "remove"
          /\ generation_completed[a]
     /\ \A a \in removed_assets :
          /\ a \notin all_assets'
          /\ \A k \in DOMAIN associated_assets'[a] : associated_assets'[a][k] = {}
          /\ \A b \in created : \A k \in DOMAIN associated_assets'[b] :
               a \notin associated_assets'[b][k]]_vars

\* The repair is over: assets were removed, others are left, all completed.
C25_Witness ==
  /\ pc = "done"
  /\ removed_assets # {}
  /\ all_assets # {}
  /\ \A a \in created : generation_completed[a]

\* C26: within each pass of resolve_inconsistency, every asset removed in the
\* pass was inconsistent at the start of the pass and had
\* complete_associations(force_associate=True) run on it earlier in the pass;
\* the forced step makes no consistent asset inconsistent, so the set
\* recomputed after the forced step is a subset of the set computed before it.
\* Stated step by step: the first for loop starts from the list of the pass
\* start and only ends when it has visited all of it; the list recomputed
\* then holds only assets of that list, all of them completed by their forced
\* call; the second for loop does not change the list and removes only assets
\* of it.
C26_RepairStepOrdering ==
  [][/\ (pc = "while" /\ pc' = "force") => loop_rest' = inconsistent_assets
     /\ pc = "force" => inconsistent_assets' = inconsistent_assets \/ pc' = "remove"
     /\ (pc = "force" /\ pc' = "complete_associations") =>
          /\ force_associate'
          /\ source_asset' \in DOMAIN inconsistent_assets
          /\ loop_rest'[source_asset'] = loop_rest[source_asset'] - 1
     /\ (pc = "force" /\ pc' = "remove") =>
          /\ \A a \in DOMAIN loop_rest : loop_rest[a] = 0
          /\ DOMAIN inconsistent_assets' \subseteq DOMAIN inconsistent_assets
          /\ \A a \in DOMAIN inconsistent_assets' : generation_completed[a]
     /\ (pc = "remove" /\ pc' = "remove") => inconsistent_assets' = inconsistent_assets
     /\ \A a \in all_assets \ all_assets' :
          pc = "remove" /\ a \in DOMAIN inconsistent_assets]_vars

\* The forced step of the pass has made an association, and the second loop
\* has just removed an asset.
C26_Witness ==
  /\ pc = "remove"
  /\ ~checked.repeated
  /\ loop_last \in removed_assets

\* C27: every asset that resolve_inconsistency removes has, at the moment
\* Model.remove is called on it, a declared neighbor type whose realized count
\* is outside [target.low, target.high], also when other assets of the same
\* pass were removed before it.
C27_OnlyInconsistentRemoved ==
  [][\A a \in all_assets \ all_assets' :
       \E t \in DOMAIN n_associated_assets[a] : ~within_band(a, t)]_vars

\* C28: a call complete_associations(asset, force_associate=True) never
\* raises the realized count of any asset, source or target, for a declared
\* neighbor type above that asset's target.high, provided the count was at
\* most target.high before.
at_most_high(assoc, a, t) ==
  Cardinality(assoc[a][t]) <= n_associated_assets[a][t].high

C28_ForceRespectsBand ==
  [][(pc = "complete_associations" /\ force_associate) =>
       \A a \in all_assets : \A t \in DOMAIN n_associated_assets[a] :
         at_most_high(associated_assets, a, t) => at_most_high(associated_assets', a, t)]_vars

\* The forced step of a pass has made an association, and an asset holds
\* target.high neighbors of a type, more than its target.value.
C28_Witness ==
  /\ pc = "remove"
  /\ ~checked.repeated
  /\ \E a \in all_assets : \E t \in DOMAIN n_associated_assets[a] :
       /\ Cardinality(associated_assets[a][t]) = n_associated_assets[a][t].high
       /\ n_associated_assets[a][t].value < n_associated_assets[a][t].high

\* C29: every pass of resolve_inconsistency that does not end with
\* check_consistency() empty removes at least one asset from the model, so
\* the number of assets strictly decreases from one pass to the next; hence
\* with an attempt limit at least as large as the number of assets, repair
\* always ends, with check_consistency() empty and no failure.
\* (All assets created are in the model when the repair starts.)
pass_ends == pc = "remove" /\ pc' \in {"while", "done"}

C29_PassesRemoveAssets ==
  /\ [][(pass_ends /\ inconsistent_assets' # EmptyList) =>
          /\ inconsistent_assets # EmptyList
          /\ DOMAIN inconsistent_assets \cap all_assets = {}
          /\ DOMAIN inconsistent_assets \subseteq removed_assets]_vars
  /\ []((pc = "while" /\ inconsistent_assets # EmptyList) =>
          Cardinality(removed_assets) >= counter)
  /\ []((pc = "done" /\ n_consistency_resolution_attempts >= Cardinality(created)) =>
          /\ inconsistent_assets = EmptyList
          /\ check_consistency = EmptyList
          /\ ~failed)
  /\ (pc = "sampled") ~> (pc = "done")

\* A repair that needed as many passes as the model had assets, within the
\* attempt limit.
C29_Witness ==
  /\ pc = "done"
  /\ n_consistency_resolution_attempts >= Cardinality(created)
  /\ counter = Cardinality(created)
  /\ counter >= 2

\* C30: at every point of sample(), for every asset in the model and every
\* neighbor type it declares, the realized count is at most target.value;
\* this includes an asset that has just been created by add and associated
\* with the source that demanded it, also when its own target.value for the
\* source's type is 0.
during_sample == in_sample \/ pc = "sampled"

C30_ValueNeverExceeded ==
  during_sample =>
    \A a \in all_assets : \A t \in DOMAIN n_associated_assets[a] :
      Cardinality(associated_assets[a][t]) <= n_associated_assets[a][t].value

\* What holds: the only excess is one neighbor where the target is 0, the
\* source an asset was created for.
C30_ExcessOnlyAtCreation ==
  during_sample =>
    \A a \in all_assets : \A t \in DOMAIN n_associated_assets[a] :
      \/ Cardinality(associated_assets[a][t]) <= n_associated_assets[a][t].value
      \/ /\ n_associated_assets[a][t].value = 0
         /\ Cardinality(associated_assets[a][t]) = 1

\* C31: a reciprocal slot created on demand is bounded. For an asset T and a
\* neighbor type s that T's type does not declare, T.associated_assets[s]
\* never holds more than one asset in any state of sample() and
\* resolve_inconsistency(): the asset whose demand caused T to be created,
\* since T never accepts type s as an existing target. A step puts an asset
\* in such a slot only when it creates T, and the asset is the source.
C31_ReciprocalSlotBounded ==
  /\ [](\A T \in created : \A s \in reciprocal_slots(T) :
          Cardinality(associated_assets[T][s]) <= 1)
  /\ [][\A T \in Ids :
          \A s \in DOMAIN associated_assets'[T] \ DOMAIN n_associated_assets'[T] :
            LET before == IF s \in DOMAIN associated_assets[T]
                          THEN associated_assets[T][s] ELSE {}
            IN \/ associated_assets'[T][s] \subseteq before
               \/ /\ T \notin created
                  /\ asset_type_name[source_asset] = s
                  /\ associated_assets'[T][s] = {source_asset}]_vars

\* An asset holds its creator in a slot its type does not declare, while an
\* asset of the slot's type that is not in the slot looks for a target of
\* the holder's type.
C31_Witness ==
  /\ in_loop
  /\ accepts(source_asset, target_asset_type, FALSE)
  /\ ~available_targets_raises(target_asset_type)
  /\ \E T \in assets[target_asset_type] :
       /\ asset_type_name[source_asset] \in reciprocal_slots(T)
       /\ Cardinality(associated_assets[T][asset_type_name[source_asset]]) = 1
       /\ source_asset \notin associated_assets[T][asset_type_name[source_asset]]
       /\ T # source_asset

\* C32: the result of check_consistency() contains each inconsistent asset
\* exactly once, also when the asset is outside its acceptance band for two
\* or more of its declared neighbor types; so resolve_inconsistency runs the
\* forced completion and the removal at most once per asset per pass.
C32_EachInconsistentAssetOnce ==
  \A asset \in DOMAIN inconsistent_assets : inconsistent_assets[asset] = 1

\* The consequence: a for loop of a pass does not visit the asset it has
\* just visited.
C32_OncePerAssetPerPass ==
  [][/\ (pc = "force" /\ pc' = "complete_associations") => source_asset' # loop_last
     /\ (pc = "remove" /\ loop_last' # loop_last) => loop_last' \in all_assets]_vars

\* C33: frame of removal. Model.remove(a) removes a from the collection of
\* a's type, removes a from the association set for a's type of each asset
\* that was a's neighbor, and empties a's own association sets; it changes
\* nothing else: every association between two assets other than a, the
\* membership of every other asset, every generation_completed flag and
\* every target distribution are unchanged.
removing == pc = "remove" /\ loop_rest' # loop_rest

C33_FrameOfRemoval ==
  [][removing =>
       LET a == loop_last'
       IN /\ \A t \in DOMAIN assets : assets'[t] = assets[t] \ {a}
          /\ DOMAIN assets' = DOMAIN assets
          /\ \A k \in DOMAIN associated_assets'[a] : associated_assets'[a][k] = {}
          /\ \A b \in Ids \ {a} :
               /\ DOMAIN associated_assets'[b] = DOMAIN associated_assets[b]
               /\ \A k \in DOMAIN associated_assets[b] :
                    associated_assets'[b][k] = associated_assets[b][k] \ {a}
          /\ generation_completed' = generation_completed
          /\ n_associated_assets' = n_associated_assets
          /\ n_assets' = n_assets
          /\ asset_type_name' = asset_type_name
          /\ name' = name]_vars

\* The asset removed last had, when the pass listed it, a neighbor that is
\* still in the model, and two other assets of the model are associated.
C33_Witness ==
  /\ pc = "remove"
  /\ loop_last \in created \ all_assets
  /\ \E b \in all_assets :
       \E k \in DOMAIN checked.read[2][loop_last][2] :
         b \in checked.read[2][loop_last][2][k]
  /\ \E c \in all_assets : \E d \in all_assets : associated(c, d)

\* C34: Model.remove is idempotent and total. remove(a) on an asset that is
\* not (or no longer) in the model raises no error and leaves the model
\* collections and all other assets' association sets unchanged, so
\* remove(a); remove(a) yields the same state as a single remove(a).
C34_RemoveIdempotent ==
  [][(removing /\ loop_last' \notin all_assets) =>
       /\ err' = "none"
       /\ pc' = "remove"
       /\ assets' = assets
       /\ associated_assets' = associated_assets]_vars

\* The removal loop has called remove twice on the same asset.
C34_Witness ==
  /\ pc = "remove"
  /\ loop_last \in DOMAIN inconsistent_assets
  /\ inconsistent_assets[loop_last] = 2
  /\ loop_rest[loop_last] = 0
  /\ loop_last \in created \ all_assets

\* C35: association mutations are all-or-nothing. Asset.disassociate(other)
\* on a pair that is not currently associated raises an error and leaves the
\* association sets of both assets unchanged; Asset.associate(other) and
\* Asset.disassociate(other), on states satisfying the symmetry invariant,
\* update both sides or neither side, also when they fail because the caller
\* has no association set for other's type.
calling == pc = "done" /\ pc' = "called"
side_changes(a) == associated_assets'[a] # associated_assets[a]

C35_AllOrNothing ==
  [][calling =>
       LET self == call'.self
           target == call'.target
       IN /\ (call'.op = "disassociate" /\ ~associated(self, target)) =>
               /\ err' # "none"
               /\ associated_assets' = associated_assets
          /\ side_changes(self) <=> side_changes(target)
          /\ err' # "none" => associated_assets' = associated_assets
          /\ \A a \in Ids \ {self, target} : ~side_changes(a)
          /\ (call'.op = "associate" /\ ~associated(self, target) /\ err' = "none") =>
               (side_changes(self) /\ side_changes(target))
          /\ (call'.op = "disassociate" /\ associated(self, target)) =>
               (side_changes(self) /\ side_changes(target) /\ err' = "none")]_vars

\* disassociate has raised on a pair of assets of the model that are not
\* associated, the caller holding a set for the other's type.
C35_Witness ==
  /\ pc = "called"
  /\ call.op = "disassociate"
  /\ err = "KeyError"
  /\ call.self \in all_assets
  /\ call.target \in all_assets
  /\ call.self # call.target
  /\ asset_type_name[call.target] \in DOMAIN associated_assets[call.self]

\* C36: resolve_inconsistency() on a model whose check_consistency() is empty
\* (including an empty model) performs no pass: it associates nothing,
\* removes nothing, changes no asset and reports no failure.
resolve_called == pc \in {"constructed", "sampled"} /\ pc' = "while"
model_unchanged == UNCHANGED <<assets, heap_vars, associated_assets, failed, err>>

C36_NoPassWhenConsistent ==
  [][/\ (resolve_called /\ check_consistency = EmptyList) =>
          (inconsistent_assets' = EmptyList /\ counter' = 0 /\ model_unchanged)
     /\ (pc = "while" /\ counter = 0 /\ inconsistent_assets = EmptyList) =>
          (pc' = "done" /\ counter' = 0 /\ ~failed' /\ model_unchanged)]_vars

\* resolve_inconsistency() has returned from a consistent, non-empty model
\* without making a pass.
C36_Witness ==
  /\ pc = "done"
  /\ counter = 0
  /\ all_assets # {}
  /\ \E a \in all_assets : neighbors(a) # {}

\* resolve_inconsistency() has returned from the empty model.
C36_WitnessEmptyModel ==
  /\ pc = "done"
  /\ counter = 0
  /\ created = {}

====
